---- MODULE Spec2Model ----
(***************************************************************************)
(* The todo service of app/todo_service.py over the Todo table of          *)
(* app/models.py, with the add-todo handler of app/todo_ui.py.             *)
(*                                                                         *)
(* A string is kept run-length encoded: a sequence of runs [c, n] (the     *)
(* character c repeated n > 0 times, adjacent runs of different            *)
(* characters), so that a 200 or 1000 character value has its real length. *)
(* A datetime is an integer number of clock ticks.                         *)
(***************************************************************************)
EXTENDS Integers, Sequences, FiniteSets, TLC

VARIABLES
    todos,     \* the rows of table "todos": a function from id to Todo
    nextId,    \* the next primary key the storage layer assigns
    now,       \* the value datetime.utcnow() returns when read
    call,      \* the last service request (operation and arguments)
    ret,       \* what that request returned or raised
    txn        \* per caller, the toggle_todo_completion call it has in flight

vars == <<todos, nextId, now, call, ret, txn>>

----------------------------------------------------------------------------
(* Bounds *)

MaxId == 2        \* the storage layer assigns the ids 1..MaxId
MaxIdStrings == 1 \* the same, where callers pass every kind of string
MaxIdToggles == 2 \* the same, where two calls overlap
MaxClock == 1     \* the clock runs from 0 to MaxClock

(* Program constants *)

TitleMaxLength == 200
DescriptionMaxLength == 1000

----------------------------------------------------------------------------
(* Strings *)

Rep(c, n) == IF n = 0 THEN <<>> ELSE << [c |-> c, n |-> n] >>

RECURSIVE StrLen(_)
StrLen(s) == IF s = <<>> THEN 0 ELSE Head(s).n + StrLen(Tail(s))

IsSpace(c) == c = " "

RECURSIVE LStrip(_)
LStrip(s) ==
    IF s = <<>> THEN <<>>
    ELSE IF IsSpace(Head(s).c) THEN LStrip(Tail(s)) ELSE s

RECURSIVE RStrip(_)
RStrip(s) ==
    IF s = <<>> THEN <<>>
    ELSE IF IsSpace(s[Len(s)].c) THEN RStrip(SubSeq(s, 1, Len(s) - 1)) ELSE s

\* str.strip(): whitespace removed at both ends
Strip(s) == RStrip(LStrip(s))

\* the titles and descriptions callers pass: empty, blank, and at and over
\* the maximum length
TitleInputs ==
    { Rep("a", 0),
      Rep(" ", 2),
      Rep("A", TitleMaxLength),
      Rep("A", TitleMaxLength + 1) }

DescriptionInputs ==
    { Rep("d", 0),
      Rep("B", DescriptionMaxLength),
      Rep("B", DescriptionMaxLength + 1) }

\* one ordinary title and description
PlainTitles == { Rep("a", 1) }
PlainDescriptions == { Rep("d", 0) }

\* Optional[...] fields of a request: None, or a value
None == [some |-> FALSE]
Some(v) == [some |-> TRUE, v |-> v]
Opt(S) == {None} \cup {Some(v) : v \in S}

----------------------------------------------------------------------------
(* models.py *)

\* TodoCreate(title=..., description=...): the field constraints
TodoCreateValid(title, description) ==
    /\ StrLen(title) <= TitleMaxLength
    /\ StrLen(description) <= DescriptionMaxLength

\* TodoUpdate(title=..., description=..., completed=...): the constraints
\* of the fields that are given
TodoUpdateValid(title, description, completed) ==
    /\ title.some => StrLen(title.v) <= TitleMaxLength
    /\ description.some => StrLen(description.v) <= DescriptionMaxLength

\* datetime.isoformat()
isoformat(t) == [iso |-> t]

\* TodoResponse.from_todo
from_todo(todo) ==
    [ id |-> todo.id,
      title |-> todo.title,
      description |-> todo.description,
      completed |-> todo.completed,
      created_at |-> isoformat(todo.created_at),
      updated_at |-> isoformat(todo.updated_at) ]

----------------------------------------------------------------------------
(* What an operation returns *)

Absent == [kind |-> "none"]
Response(todo) == [kind |-> "todo", todo |-> from_todo(todo)]
Bool(b) == [kind |-> "bool", value |-> b]
ValidationError == [kind |-> "error", error |-> "ValidationError"]
Notify(type) == [kind |-> "notify", type |-> type]

\* the callers whose toggle_todo_completion calls can overlap
Callers == {"a", "b"}

\* a caller without a toggle_todo_completion call in flight
Idle == [pc |-> "idle"]

\* session.get(Todo, todo_id) finds a row
Exists(id) == id \in DOMAIN todos

----------------------------------------------------------------------------
(* State after create_tables() / reset_db() *)

Init ==
    /\ todos = <<>>
    /\ nextId = 1
    /\ now = 0
    /\ call = [op |-> "startup"]
    /\ ret = Absent
    /\ txn = [p \in Callers |-> Idle]

\* time passes between two requests
Tick ==
    /\ now < MaxClock
    /\ now' = now + 1
    /\ call' = [op |-> "idle"]
    /\ ret' = Absent
    /\ UNCHANGED <<todos, nextId, txn>>

----------------------------------------------------------------------------
(* Storage layer *)

\* the primary key given to an inserted row
InsertId == nextId

\* select(Todo).order_by(desc(Todo.created_at)): the orders in which the
\* rows can come back. Rows of equal created_at have no order among them.
OrderByCreatedAtDesc(rows) ==
    { s \in [1..Cardinality(DOMAIN rows) -> DOMAIN rows] :
        /\ \A i, j \in DOMAIN s : i # j => s[i] # s[j]
        /\ \A i, j \in DOMAIN s :
              i < j => rows[s[i]].created_at >= rows[s[j]].created_at }

----------------------------------------------------------------------------
(* todo_service.py *)

\* TodoCreate(title=title) leaves description at its default
TodoCreate(title, description) ==
    [ title |-> title,
      description |-> IF description.some THEN description.v ELSE <<>> ]

\* fault: create_todo passing the description as the title
NewTodoSwapped(todo_data, id, t1, t2) ==
    [ id |-> id,
      title |-> todo_data.description,
      description |-> todo_data.title,
      completed |-> FALSE,
      created_at |-> t1,
      updated_at |-> t2 ]

\* fault: create_todo with the two readings of the clock exchanged
NewTodoStampsExchanged(todo_data, id, t1, t2) ==
    [ id |-> id,
      title |-> todo_data.title,
      description |-> todo_data.description,
      completed |-> FALSE,
      created_at |-> t2,
      updated_at |-> t1 ]

\* the Todo that create_todo builds, with the two readings of the clock
NewTodo(todo_data, id, t1, t2) ==
    [ id |-> id,
      title |-> todo_data.title,
      description |-> todo_data.description,
      completed |-> FALSE,
      created_at |-> t1,
      updated_at |-> t2 ]

\* create_todo(todo_data); the clock advances by d between its two readings,
\* and the storage layer has ids up to N to give
create_todo(todo_data, d, N) ==
    /\ InsertId <= N
    /\ now + d <= MaxClock
    /\ LET todo == NewTodo(todo_data, InsertId, now, now + d)
       IN  todos' = todos @@ (todo.id :> todo)
    /\ nextId' = nextId + 1
    /\ now' = now + d
    /\ UNCHANGED txn

\* the lists get_all_todos can return over the rows
get_all_todos(rows) ==
    { [kind |-> "list", items |-> [i \in DOMAIN s |-> from_todo(rows[s[i]])]] :
        s \in OrderByCreatedAtDesc(rows) }

GetAllTodos ==
    /\ call' = [op |-> "get_all_todos"]
    /\ ret' \in get_all_todos(todos)
    /\ UNCHANGED <<todos, nextId, now, txn>>

\* what get_todo_by_id returns over the rows
get_todo_by_id(rows, todo_id) ==
    IF todo_id \in DOMAIN rows THEN Response(rows[todo_id]) ELSE Absent

GetTodoById(todo_id) ==
    /\ call' = [op |-> "get_todo_by_id", id |-> todo_id]
    /\ ret' = get_todo_by_id(todos, todo_id)
    /\ UNCHANGED <<todos, nextId, now, txn>>

CreateTodo(title, description, d, N) ==
    /\ call' = [op |-> "create_todo", title |-> title, description |-> description]
    /\ LET todo_data == TodoCreate(title, description)
       IN  IF TodoCreateValid(todo_data.title, todo_data.description)
           THEN /\ create_todo(todo_data, d, N)
                /\ ret' = Response(todos'[InsertId])
           ELSE /\ d = 0
                /\ ret' = ValidationError
                /\ UNCHANGED <<todos, nextId, now, txn>>

\* fault: update_todo taking a completed of None for false
UpdatedTodoNoneAsFalse(todo, title, description, completed, t) ==
    [ todo EXCEPT
        !.title = IF title.some THEN title.v ELSE @,
        !.description = IF description.some THEN description.v ELSE @,
        !.completed = completed.some /\ completed.v,
        !.updated_at = t ]

\* fault: update_todo stamping updated_at only when the request has a field
UpdatedTodoStampIfGiven(todo, title, description, completed, t) ==
    [ todo EXCEPT
        !.title = IF title.some THEN title.v ELSE @,
        !.description = IF description.some THEN description.v ELSE @,
        !.completed = IF completed.some THEN completed.v ELSE @,
        !.updated_at =
            IF title.some \/ description.some \/ completed.some THEN t ELSE @ ]

\* fault: update_todo stamping created_at as well
UpdatedTodoRestamped(todo, title, description, completed, t) ==
    [ todo EXCEPT
        !.title = IF title.some THEN title.v ELSE @,
        !.description = IF description.some THEN description.v ELSE @,
        !.completed = IF completed.some THEN completed.v ELSE @,
        !.created_at = t,
        !.updated_at = t ]

\* the fields update_todo assigns
UpdatedTodo(todo, title, description, completed, t) ==
    [ todo EXCEPT
        !.title = IF title.some THEN title.v ELSE @,
        !.description = IF description.some THEN description.v ELSE @,
        !.completed = IF completed.some THEN completed.v ELSE @,
        !.updated_at = t ]

UpdateTodo(todo_id, title, description, completed) ==
    /\ call' = [op |-> "update_todo", id |-> todo_id, title |-> title,
                description |-> description, completed |-> completed]
    /\ IF ~TodoUpdateValid(title, description, completed)
       THEN /\ ret' = ValidationError
            /\ UNCHANGED <<todos, nextId, now, txn>>
       ELSE IF ~Exists(todo_id)
       THEN /\ ret' = Absent
            /\ UNCHANGED <<todos, nextId, now, txn>>
       ELSE LET todo == UpdatedTodo(todos[todo_id], title, description, completed, now)
            IN  /\ todos' = [todos EXCEPT ![todo_id] = todo]
                /\ ret' = Response(todo)
                /\ UNCHANGED <<nextId, now, txn>>

\* fault: toggle_todo_completion marking the todo completed
ToggledTodoSetTrue(todo, t) ==
    [ todo EXCEPT !.completed = TRUE, !.updated_at = t ]

\* the fields toggle_todo_completion assigns
ToggledTodo(todo, t) ==
    [ todo EXCEPT !.completed = ~@, !.updated_at = t ]

ToggleTodoCompletion(todo_id) ==
    /\ call' = [op |-> "toggle_todo_completion", id |-> todo_id]
    /\ IF ~Exists(todo_id)
       THEN /\ ret' = Absent
            /\ UNCHANGED <<todos, nextId, now, txn>>
       ELSE LET todo == ToggledTodo(todos[todo_id], now)
            IN  /\ todos' = [todos EXCEPT ![todo_id] = todo]
                /\ ret' = Response(todo)
                /\ UNCHANGED <<nextId, now, txn>>

\* the UPDATE that session.commit() issues for a toggled todo: the two
\* changed columns of the row, written over whatever the row holds
StorageUpdate(rows, id, completed, updated_at) ==
    [rows EXCEPT ![id].completed = completed, ![id].updated_at = updated_at]

\* toggle_todo_completion up to session.get: caller p has loaded the row
ToggleLoad(p, todo_id) ==
    /\ txn[p] = Idle
    /\ IF ~Exists(todo_id)
       THEN /\ call' = [op |-> "toggle_todo_completion", id |-> todo_id]
            /\ ret' = Absent
            /\ UNCHANGED txn
       ELSE /\ txn' = [txn EXCEPT ![p] = [pc |-> "loaded", id |-> todo_id,
                                         seen |-> todos[todo_id].completed]]
            /\ UNCHANGED <<call, ret>>
    /\ UNCHANGED <<todos, nextId, now>>

\* fault: the commit negating the flag the row holds by then
ToggleCommitOfStored(p) ==
    /\ txn[p].pc = "loaded"
    /\ LET id == txn[p].id
       IN  /\ todos' = StorageUpdate(todos, id, ~todos[id].completed, now)
           /\ call' = [op |-> "toggle_todo_completion", id |-> id]
           /\ ret' = Response(todos'[id])
           /\ txn' = [txn EXCEPT ![p] = [pc |-> "done", id |-> id,
                                        seen |-> txn[p].seen,
                                        returned |-> todos'[id].completed]]
    /\ UNCHANGED <<nextId, now>>

\* the rest of toggle_todo_completion: caller p negates the flag of the todo
\* it loaded, stamps it, commits, refreshes and returns
ToggleCommit(p) ==
    /\ txn[p].pc = "loaded"
    /\ LET id == txn[p].id
       IN  /\ todos' = StorageUpdate(todos, id, ~txn[p].seen, now)
           /\ call' = [op |-> "toggle_todo_completion", id |-> id]
           /\ ret' = Response(todos'[id])
           /\ txn' = [txn EXCEPT ![p] = [pc |-> "done", id |-> id,
                                        seen |-> txn[p].seen,
                                        returned |-> todos'[id].completed]]
    /\ UNCHANGED <<nextId, now>>

\* session.delete(todo)
Without(todo_id) == [i \in DOMAIN todos \ {todo_id} |-> todos[i]]

\* fault: delete_todo without the check for None
DeleteTodoUnchecked(todo_id) ==
    /\ call' = [op |-> "delete_todo", id |-> todo_id]
    /\ todos' = Without(todo_id)
    /\ ret' = Bool(TRUE)
    /\ UNCHANGED <<nextId, now, txn>>

\* fault: delete_todo without session.commit()
DeleteTodoUncommitted(todo_id) ==
    /\ call' = [op |-> "delete_todo", id |-> todo_id]
    /\ ret' = Bool(Exists(todo_id))
    /\ UNCHANGED <<todos, nextId, now, txn>>

DeleteTodo(todo_id) ==
    /\ call' = [op |-> "delete_todo", id |-> todo_id]
    /\ IF ~Exists(todo_id)
       THEN /\ ret' = Bool(FALSE)
            /\ UNCHANGED <<todos, nextId, now, txn>>
       ELSE /\ todos' = Without(todo_id)
            /\ ret' = Bool(TRUE)
            /\ UNCHANGED <<nextId, now, txn>>

\* fault: get_stats without the subtraction
get_statsPendingTotal(rows) ==
    LET total == Cardinality(DOMAIN rows)
        completed == Cardinality({i \in DOMAIN rows : rows[i].completed})
    IN  [total |-> total, completed |-> completed, pending |-> total]

\* the dictionary get_stats builds from the rows
get_stats(rows) ==
    LET total == Cardinality(DOMAIN rows)
        completed == Cardinality({i \in DOMAIN rows : rows[i].completed})
        pending == total - completed
    IN  [total |-> total, completed |-> completed, pending |-> pending]

GetStats ==
    /\ call' = [op |-> "get_stats"]
    /\ ret' = [kind |-> "stats", stats |-> get_stats(todos)]
    /\ UNCHANGED <<todos, nextId, now, txn>>

----------------------------------------------------------------------------
(* todo_ui.py *)

\* add_new_todo: the values of the two inputs, stripped; an empty title is
\* refused with a warning, an error of TodoCreate is caught and notified
AddNewTodo(title_input, description_input, d, N) ==
    LET title == Strip(title_input)
        description == Strip(description_input)
    IN  /\ call' = [op |-> "add_new_todo", title |-> title_input,
                    description |-> description_input]
        /\ IF title = <<>>
           THEN /\ d = 0
                /\ ret' = Notify("warning")
                /\ UNCHANGED <<todos, nextId, now, txn>>
           ELSE IF TodoCreateValid(title, description)
           THEN /\ create_todo(TodoCreate(title, Some(description)), d, N)
                /\ ret' = Notify("positive")
           ELSE /\ d = 0
                /\ ret' = Notify("negative")
                /\ UNCHANGED <<todos, nextId, now, txn>>

----------------------------------------------------------------------------

\* the ids callers ask for: 0, and the ids the storage layer gives
Ids(N) == 0..N

\* the requests of callers that pass titles of T and descriptions of D,
\* with the clock advancing by one of K inside a request and ids up to N
Requests(T, D, K, N) ==
    \/ GetAllTodos
    \/ \E id \in Ids(N) : GetTodoById(id)
    \/ \E title \in T, description \in Opt(D), d \in K :
          CreateTodo(title, description, d, N)
    \/ \E id \in Ids(N), title \in Opt(T), description \in Opt(D),
          completed \in Opt(BOOLEAN) :
          UpdateTodo(id, title, description, completed)
    \/ \E id \in Ids(N) : ToggleTodoCompletion(id)
    \/ \E id \in Ids(N) : DeleteTodo(id)
    \/ GetStats
    \/ \E title \in T, description \in D, d \in K :
          AddNewTodo(title, description, d, N)

\* ordinary requests while time passes
Next == Tick \/ Requests(PlainTitles, PlainDescriptions, 0..1, MaxId)

Spec == Init /\ [][Next]_vars

\* requests over the whole range of titles and descriptions, the clock
\* standing still
NextStrings == Requests(TitleInputs, DescriptionInputs, {0}, MaxIdStrings)

SpecStrings == Init /\ [][NextStrings]_vars

\* todos are created while time passes, and each of two callers makes one
\* toggle_todo_completion call, the two in any interleaving
NextToggles ==
    \/ Tick
    \/ \E title \in PlainTitles, description \in Opt(PlainDescriptions),
          d \in 0..1 :
          CreateTodo(title, description, d, MaxIdToggles)
    \/ \E p \in Callers, id \in Ids(MaxIdToggles) : ToggleLoad(p, id)
    \/ \E p \in Callers : ToggleCommit(p)

SpecToggles == Init /\ [][NextToggles]_vars

----------------------------------------------------------------------------
(* Properties *)

\* a title that is not empty after trimming and no longer than the maximum
TitleOk(title) ==
    /\ StrLen(Strip(title)) > 0
    /\ StrLen(title) <= TitleMaxLength

DescriptionOk(description) == StrLen(description) <= DescriptionMaxLength

\* C1: create_todo answers a request whose title is empty after trimming or
\* longer than 200 characters, or whose description is longer than 1000
\* characters, with a validation error and leaves the store unchanged; any
\* other request, a title of exactly 200 and a description of exactly 1000
\* characters included, is stored as given.
C1_CreateRejectsInvalid ==
    [][call'.op = "create_todo" =>
         LET todo_data == TodoCreate(call'.title, call'.description)
         IN  IF TitleOk(todo_data.title) /\ DescriptionOk(todo_data.description)
             THEN /\ ret'.kind = "todo"
                  /\ ret'.todo.title = todo_data.title
                  /\ ret'.todo.description = todo_data.description
                  /\ todos'[ret'.todo.id].title = todo_data.title
                  /\ todos'[ret'.todo.id].description = todo_data.description
             ELSE /\ ret' = ValidationError
                  /\ todos' = todos]_vars

\* C2: every persisted todo has a title that is not empty after trimming and
\* at most 200 characters long, and a description of at most 1000 characters.
C2_PersistedFieldsValid ==
    \A id \in DOMAIN todos :
        /\ TitleOk(todos[id].title)
        /\ DescriptionOk(todos[id].description)

\* C3: a successful create_todo returns a positive id that no todo of the
\* store had, completed false, and the title and description of the request
\* (the description empty when none is given); get_todo_by_id with that id
\* then returns the same todo.
C3_CreateReturnsNewTodo ==
    [][call'.op = "create_todo" /\ ret'.kind = "todo" =>
         LET todo_data == TodoCreate(call'.title, call'.description)
             id == ret'.todo.id
         IN  /\ id > 0
             /\ id \notin DOMAIN todos
             /\ DOMAIN todos' = DOMAIN todos \cup {id}
             /\ \A other \in DOMAIN todos : todos'[other] = todos[other]
             /\ ret'.todo.completed = FALSE
             /\ ret'.todo.title = todo_data.title
             /\ ret'.todo.description = todo_data.description
             /\ (~call'.description.some => ret'.todo.description = <<>>)
             /\ get_todo_by_id(todos', id) = ret']_vars

\* a create_todo without a description succeeded while another todo was stored
C3_Witness ==
    /\ call.op = "create_todo"
    /\ ret.kind = "todo"
    /\ ~call.description.some
    /\ Cardinality(DOMAIN todos) = 2

\* C4: update_todo on an existing id gives each of title, description and
\* completed the value of the request when the request has one and leaves
\* it as it was when the request has none; the response is the updated record.
C4_UpdateAppliesPresentFields ==
    [][call'.op = "update_todo" /\ ret'.kind = "todo" =>
         LET old == todos[call'.id]
             new == todos'[call'.id]
         IN  /\ new.title = IF call'.title.some THEN call'.title.v ELSE old.title
             /\ new.description =
                   IF call'.description.some THEN call'.description.v
                   ELSE old.description
             /\ new.completed =
                   IF call'.completed.some THEN call'.completed.v
                   ELSE old.completed
             /\ ret'.todo.id = call'.id
             /\ ret'.todo.title = new.title
             /\ ret'.todo.description = new.description
             /\ ret'.todo.completed = new.completed]_vars

\* an update that gave a new title only, to a completed todo with a description
C4_Witness ==
    /\ call.op = "update_todo"
    /\ ret.kind = "todo"
    /\ call.title.some
    /\ ~call.description.some
    /\ ~call.completed.some
    /\ ret.todo.title = call.title.v
    /\ ret.todo.description # <<>>
    /\ ret.todo.completed

\* C5: for an id that matches no row, get_todo_by_id, update_todo and
\* toggle_todo_completion return the absent signal, delete_todo returns
\* false, and the store is left unchanged.
C5_MissingIdIsAbsent ==
    [][/\ call'.op \in {"get_todo_by_id", "update_todo",
                        "toggle_todo_completion", "delete_todo"}
       /\ call'.id \notin DOMAIN todos
       => /\ ret' = IF call'.op = "delete_todo" THEN Bool(FALSE) ELSE Absent
          /\ todos' = todos
          /\ nextId' = nextId]_vars

\* delete_todo returned false for the id of a todo that was deleted before
C5_Witness ==
    /\ call.op = "delete_todo"
    /\ call.id \in 1..(nextId - 1)
    /\ call.id \notin DOMAIN todos
    /\ ret = Bool(FALSE)
    /\ todos # <<>>

\* the ids of the todos in a list that get_all_todos returned
ListedIds(list) == { list.items[i].id : i \in DOMAIN list.items }

\* C6: delete_todo returns true exactly when a row has the id, and then the
\* row is gone: get_todo_by_id returns absent, get_all_todos does not list
\* it and get_stats counts one todo fewer; an id without a row gets one only
\* by a create, so every later delete_todo of it returns false until then.
C6_DeleteOnce ==
    [][/\ call'.op = "delete_todo" =>
            /\ ret' = Bool(call'.id \in DOMAIN todos)
            /\ call'.id \notin DOMAIN todos'
            /\ get_todo_by_id(todos', call'.id) = Absent
            /\ \A list \in get_all_todos(todos') : call'.id \notin ListedIds(list)
            /\ ret'.value =>
                  get_stats(todos').total = get_stats(todos).total - 1
       /\ \A id \in DOMAIN todos' \ DOMAIN todos :
            call'.op \in {"create_todo", "add_new_todo"}]_vars

\* delete_todo removed one of two todos
C6_Witness ==
    /\ call.op = "delete_todo"
    /\ ret = Bool(TRUE)
    /\ Cardinality(DOMAIN todos) = 1
    /\ call.id \in 1..(nextId - 1)

\* C7: get_stats returns the number of rows as total, the number of
\* completed rows as completed and the number of rows not completed as
\* pending, so total = completed + pending, and all three are 0 on an empty
\* store.
C7_StatsCount ==
    call.op = "get_stats" =>
        /\ ret.stats.total = Cardinality(DOMAIN todos)
        /\ ret.stats.completed =
              Cardinality({id \in DOMAIN todos : todos[id].completed})
        /\ ret.stats.pending =
              Cardinality({id \in DOMAIN todos : ~todos[id].completed})
        /\ ret.stats.total = ret.stats.completed + ret.stats.pending
        /\ (todos = <<>> =>
              ret.stats = [total |-> 0, completed |-> 0, pending |-> 0])

\* get_stats counted one completed and one pending todo
C7_Witness ==
    /\ call.op = "get_stats"
    /\ ret.stats.completed = 1
    /\ ret.stats.pending = 1

\* C8: get_all_todos returns exactly the rows of the store, by created_at
\* descending, and of two rows with the same created_at the one created
\* later (the one with the greater id) first.
C8_NewestFirst ==
    call.op = "get_all_todos" =>
        /\ Len(ret.items) = Cardinality(DOMAIN todos)
        /\ \A i \in DOMAIN ret.items :
              /\ ret.items[i].id \in DOMAIN todos
              /\ ret.items[i] = from_todo(todos[ret.items[i].id])
        /\ \A i, j \in DOMAIN ret.items :
              i < j =>
                 /\ todos[ret.items[i].id].created_at
                       >= todos[ret.items[j].id].created_at
                 /\ (todos[ret.items[i].id].created_at
                        = todos[ret.items[j].id].created_at
                     => ret.items[i].id > ret.items[j].id)

\* C9: toggle_todo_completion on an existing id returns and stores the
\* negation of the flag the record had, so a second call straight after
\* the first returns the negation of what the first returned: the original.
C9_ToggleTwice ==
    [][call'.op = "toggle_todo_completion" /\ ret'.kind = "todo" =>
         /\ ret'.todo.completed = ~todos[call'.id].completed
         /\ todos'[call'.id].completed = ret'.todo.completed
         /\ (/\ call.op = "toggle_todo_completion"
             /\ call.id = call'.id
             /\ ret.kind = "todo"
             => /\ ret.todo.completed = todos[call'.id].completed
                /\ ret'.todo.completed = ~ret.todo.completed)]_vars

\* a toggle returned a todo to not completed
C9_Witness ==
    /\ call.op = "toggle_todo_completion"
    /\ ret.kind = "todo"
    /\ ~ret.todo.completed
    /\ ~todos[call.id].completed

\* C10: a todo returned by a successful create_todo has created_at equal
\* to updated_at.
C10_CreatedEqualsUpdated ==
    call.op = "create_todo" /\ ret.kind = "todo" =>
        ret.todo.created_at = ret.todo.updated_at

\* C11: a successful update_todo or toggle_todo_completion sets updated_at
\* to the value of the clock read in that call, whatever fields the request
\* has, so the returned updated_at differs from created_at whenever the clock
\* has advanced since the creation.
C11_MutationStampsUpdatedAt ==
    [][/\ call'.op \in {"update_todo", "toggle_todo_completion"}
       /\ ret'.kind = "todo"
       => /\ todos'[call'.id].updated_at = now'
          /\ ret'.todo.updated_at = isoformat(now')
          /\ (now' > todos[call'.id].created_at =>
                ret'.todo.updated_at # ret'.todo.created_at)]_vars

\* an update_todo without any field was stamped later than the creation
C11_Witness ==
    /\ call.op = "update_todo"
    /\ ret.kind = "todo"
    /\ ~call.title.some /\ ~call.description.some /\ ~call.completed.some
    /\ todos[call.id].updated_at = now
    /\ todos[call.id].created_at < now

\* C12: the clock never going backwards, every persisted todo has
\* updated_at >= created_at.
C12_UpdatedNotBeforeCreated ==
    \A id \in DOMAIN todos : todos[id].updated_at >= todos[id].created_at

\* a todo created while the clock advanced, and one toggled later than created
C12_Witness ==
    /\ \E id \in DOMAIN todos :
          /\ ~todos[id].completed
          /\ todos[id].updated_at > todos[id].created_at
    /\ call.op = "toggle_todo_completion"
    /\ ret.kind = "todo"
    /\ todos[call.id].updated_at > todos[call.id].created_at

\* C14: update_todo and toggle_todo_completion leave the id and created_at
\* of their todo and every other row as they were and add or remove no row,
\* toggle_todo_completion leaves title and description too, and delete_todo
\* removes the row of its id and no other.
C14_Frame ==
    [][/\ call'.op \in {"update_todo", "toggle_todo_completion"} =>
            /\ DOMAIN todos' = DOMAIN todos
            /\ \A id \in DOMAIN todos :
                  /\ todos'[id].id = todos[id].id
                  /\ todos'[id].created_at = todos[id].created_at
                  /\ id # call'.id => todos'[id] = todos[id]
                  /\ call'.op = "toggle_todo_completion" =>
                        /\ todos'[id].title = todos[id].title
                        /\ todos'[id].description = todos[id].description
       /\ call'.op = "delete_todo" =>
            /\ DOMAIN todos' = DOMAIN todos \ {call'.id}
            /\ \A id \in DOMAIN todos' : todos'[id] = todos[id]]_vars

\* an update_todo changed one of two todos after the clock had advanced
C14_Witness ==
    /\ call.op = "update_todo"
    /\ ret.kind = "todo"
    /\ Cardinality(DOMAIN todos) = 2
    /\ todos[call.id].created_at < todos[call.id].updated_at
    /\ call.completed.some
    /\ \E id \in DOMAIN todos : todos[id].completed # todos[call.id].completed

\* both callers have completed their toggle_todo_completion of todo id
BothDone(id) ==
    \A p \in Callers : txn[p].pc = "done" /\ txn[p].id = id

\* the two calls overlapped: both loaded the flag before either committed
Overlapped == \A p, q \in Callers : txn[p].seen = txn[q].seen

====
